---- MODULE Spec2Model ----
(***************************************************************************)
(* Model of packages/cli/mitm_addon.py: the mitmproxy addon that captures  *)
(* LLM API traffic.  Text (hosts, paths, header names, content types) is   *)
(* modelled as sequences of one-character strings, so that lower-casing,   *)
(* suffix matching and substring search are computed as the code computes  *)
(* them.                                                                   *)
(***************************************************************************)
EXTENDS Integers, Sequences, FiniteSets, TLC

\* ------------------------------------------------------------------ bounds
NumFlows == 2
MaxNow == 1
NumChunks == 2
MaxPieces == 2
MaxHeaders == 2

VARIABLES
  fn, arg, result,        \* a pure function under test: its name, input, output
  engine,                 \* how the host calls response(): "serial" or "threads"
  alive,                  \* the addon's process is running
  now,                    \* wall clock in milliseconds, int(time.time() * 1000)
  _SEQ,                   \* module global _SEQ
  dirExists,              \* CAPTURE_DIR exists
  dir,                    \* CAPTURE_DIR entries: path -> inode
  inode,                  \* inode -> content, a sequence of written chunks
  pc,                     \* per flow: position of its response() call
  flow,                   \* per flow: the flow object handed to response()
  capture,                \* per flow: local variable capture
  ts, seq,                \* per flow: locals ts and seq of _write_capture
  loaded,                 \* per flow: value of _SEQ loaded by "_SEQ += 1"
  fd,                     \* per flow: inode of the open tmp file f
  wpos,                   \* per flow: chunks json.dump has written
  fail,                   \* per flow: the step that raised, "none" if none
  raised,                 \* per flow: response() let an exception escape
  readPartial             \* a directory reader has read an incomplete capture file

vars == <<fn, arg, result, engine, alive, now, _SEQ, dirExists, dir, inode, pc,
          flow, capture, ts, seq, loaded, fd, wpos, fail, raised, readPartial>>

pureVars == <<fn, arg, result>>
procVars == <<engine, alive, now, _SEQ, dirExists, dir, inode, pc, flow, capture,
              ts, seq, loaded, fd, wpos, fail, raised, readPartial>>

\* ------------------------------------------------------------------ text
UpperChars == <<"A","B","C","D","E","F","G","H","I","J","K","L","M","N","O","P","Q","R","S","T","U","V","W","X","Y","Z">>
LowerChars == <<"a","b","c","d","e","f","g","h","i","j","k","l","m","n","o","p","q","r","s","t","u","v","w","x","y","z">>

OtherChars == <<"0","1","2","3","4","5","6","7","8","9",".","-","/","_",";",":","="," ","{","}">>

Alphabet ==
  {UpperChars[i] : i \in 1..Len(UpperChars)} \cup {LowerChars[i] : i \in 1..Len(LowerChars)}
    \cup {OtherChars[i] : i \in 1..Len(OtherChars)}

\* str.lower() on one character
LowerChar ==
  [c \in Alphabet |->
     IF \E i \in 1..Len(UpperChars) : UpperChars[i] = c
       THEN LowerChars[CHOOSE i \in 1..Len(UpperChars) : UpperChars[i] = c]
       ELSE c]

UpperChar ==
  [c \in Alphabet |->
     IF \E i \in 1..Len(LowerChars) : LowerChars[i] = c
       THEN UpperChars[CHOOSE i \in 1..Len(LowerChars) : LowerChars[i] = c]
       ELSE c]

\* str.lower()
lower(s) == [i \in 1..Len(s) |-> LowerChar[s[i]]]

upper(s) == [i \in 1..Len(s) |-> UpperChar[s[i]]]

\* str.endswith(suffix)
endswith(s, suffix) ==
  /\ Len(suffix) <= Len(s)
  /\ SubSeq(s, Len(s) - Len(suffix) + 1, Len(s)) = suffix

\* needle in hay (substring test)
contains(needle, hay) ==
  \E i \in 0..(Len(hay) - Len(needle)) : SubSeq(hay, i + 1, i + Len(needle)) = needle

None == "<None>"

\* ------------------------------------------------------------------ _match_provider
\* LLM_HOSTS in insertion order, which is the order dict.items() iterates in.
LLM_HOSTS == <<
  [pattern |-> <<"a","p","i",".","a","n","t","h","r","o","p","i","c",".","c","o","m">>, provider |-> "anthropic"],
  [pattern |-> <<"a","p","i",".","o","p","e","n","a","i",".","c","o","m">>, provider |-> "openai"],
  [pattern |-> <<"c","h","a","t","g","p","t",".","c","o","m">>, provider |-> "chatgpt"],
  [pattern |-> <<"g","e","n","e","r","a","t","i","v","e","l","a","n","g","u","a","g","e",".","g","o","o","g","l","e","a","p","i","s",".","c","o","m">>, provider |-> "gemini"],
  [pattern |-> <<"m","o","d","e","l","s",".","i","n","f","e","r","e","n","c","e",".","a","i",".","a","z","u","r","e",".","c","o","m">>, provider |-> "openai"],
  [pattern |-> <<"a","p","i",".","i","n","d","i","v","i","d","u","a","l",".","g","i","t","h","u","b","c","o","p","i","l","o","t",".","c","o","m">>, provider |-> "openai"],
  [pattern |-> <<"a","p","i",".","b","u","s","i","n","e","s","s",".","g","i","t","h","u","b","c","o","p","i","l","o","t",".","c","o","m">>, provider |-> "openai"],
  [pattern |-> <<"a","p","i",".","e","n","t","e","r","p","r","i","s","e",".","g","i","t","h","u","b","c","o","p","i","l","o","t",".","c","o","m">>, provider |-> "openai"],
  [pattern |-> <<"o","p","e","n","r","o","u","t","e","r",".","a","i">>, provider |-> "openrouter"],
  [pattern |-> <<"o","p","e","n","c","o","d","e",".","a","i">>, provider |-> "opencode"] >>

\* the condition of the loop body, on the already lower-cased host
HostMatches(host, pattern) == host = pattern \/ endswith(host, <<".">> \o pattern)

\* the for loop over a table: the first entry that matches returns
MatchLoop(table, host, i) ==
  LET hits == {j \in i..Len(table) : HostMatches(host, table[j].pattern)}
  IN IF hits = {} THEN None
     ELSE table[CHOOSE j \in hits : \A k \in hits : j <= k].provider

MatchProviderNoLower(host) == MatchLoop(LLM_HOSTS, host, 1)

_match_provider(host) == MatchLoop(LLM_HOSTS, lower(host), 1)

\* ------------------------------------------------------------------ _detect_api_format
DetectSwapped(path, provider) ==
  IF provider \in {"openai", "chatgpt", "openrouter", "opencode"}
    THEN IF contains(<<"/","r","e","s","p","o","n","s","e","s">>, path) THEN "responses"
         ELSE IF contains(<<"/","c","h","a","t","/","c","o","m","p","l","e","t","i","o","n","s">>, path) THEN "chat-completions"
         ELSE "unknown"
    ELSE IF provider = "gemini" THEN "gemini" ELSE "unknown"

_detect_api_format(path, provider) ==
  IF provider = "anthropic"
    THEN IF contains(<<"/","m","e","s","s","a","g","e","s">>, path) THEN "anthropic-messages" ELSE "unknown"
  ELSE IF provider \in {"openai", "chatgpt"}
    THEN IF contains(<<"/","c","h","a","t","/","c","o","m","p","l","e","t","i","o","n","s">>, path) THEN "chat-completions"
         ELSE IF contains(<<"/","r","e","s","p","o","n","s","e","s">>, path) THEN "responses"
         ELSE IF contains(<<"/","b","a","c","k","e","n","d","-","a","p","i","/">>, path) THEN "chatgpt-backend"
         ELSE IF contains(<<"/","m","c","p","/">>, path) THEN "mcp"
         ELSE "unknown"
  ELSE IF provider \in {"openrouter", "opencode"}
    THEN IF contains(<<"/","c","h","a","t","/","c","o","m","p","l","e","t","i","o","n","s">>, path) THEN "chat-completions"
         ELSE IF contains(<<"/","r","e","s","p","o","n","s","e","s">>, path) THEN "responses"
         ELSE "unknown"
  ELSE IF provider = "gemini" THEN "gemini"
  ELSE "unknown"

\* ------------------------------------------------------------------ _safe_headers
allowed == {
  <<"c","o","n","t","e","n","t","-","t","y","p","e">>, <<"c","o","n","t","e","n","t","-","e","n","c","o","d","i","n","g">>, <<"a","c","c","e","p","t">>, <<"u","s","e","r","-","a","g","e","n","t">>,
  <<"x","-","r","e","q","u","e","s","t","-","i","d">>, <<"o","p","e","n","a","i","-","b","e","t","a">>, <<"a","n","t","h","r","o","p","i","c","-","v","e","r","s","i","o","n">>,
  <<"x","-","r","a","t","e","l","i","m","i","t","-","l","i","m","i","t","-","r","e","q","u","e","s","t","s">>, <<"x","-","r","a","t","e","l","i","m","i","t","-","r","e","m","a","i","n","i","n","g","-","r","e","q","u","e","s","t","s">>,
  <<"x","-","r","a","t","e","l","i","m","i","t","-","l","i","m","i","t","-","t","o","k","e","n","s">>, <<"x","-","r","a","t","e","l","i","m","i","t","-","r","e","m","a","i","n","i","n","g","-","t","o","k","e","n","s">>,
  <<"o","p","e","n","a","i","-","p","r","o","c","e","s","s","i","n","g","-","m","s">>, <<"a","n","t","h","r","o","p","i","c","-","r","a","t","e","l","i","m","i","t","-","r","e","q","u","e","s","t","s","-","l","i","m","i","t">>,
  <<"a","n","t","h","r","o","p","i","c","-","r","a","t","e","l","i","m","i","t","-","r","e","q","u","e","s","t","s","-","r","e","m","a","i","n","i","n","g">> }

\* out[k] = v on a dict
DictSet(out, k, v) == [x \in (DOMAIN out) \cup {k} |-> IF x = k THEN v ELSE out[x]]

EmptyDict == [x \in {} |-> None]

\* the for loop over headers.items(): items is the sequence of (k, v) pairs
RECURSIVE SafeLoop(_, _, _)
SafeLoop(items, i, out) ==
  IF i > Len(items) THEN out
  ELSE LET k == items[i][1]
           v == items[i][2]
       IN SafeLoop(items, i + 1, IF lower(k) \in allowed THEN DictSet(out, k, v) ELSE out)

RECURSIVE SafeLoopExact(_, _, _)
SafeLoopExact(items, i, out) ==
  IF i > Len(items) THEN out
  ELSE LET k == items[i][1]
           v == items[i][2]
       IN SafeLoopExact(items, i + 1, IF k \in allowed THEN DictSet(out, k, v) ELSE out)

SafeHeadersExact(headers) == SafeLoopExact(headers, 1, EmptyDict)

_safe_headers(headers) == SafeLoop(headers, 1, EmptyDict)

\* ------------------------------------------------------------------ inputs of the pure functions
HostPrefixes == { <<>>, <<"x">>, <<"x",".">>, <<".">>, <<"E","U",".","A","p","i",".">> }

HostBases ==
  {LLM_HOSTS[i].pattern : i \in 1..Len(LLM_HOSTS)}
    \cup { <<"o","p","e","n","a","i",".","c","o","m">>, <<"a","n","t","h","r","o","p","i","c",".","c","o","m">>, <<"e","x","a","m","p","l","e",".","c","o","m">>, <<"a","i">>, <<>>,
           <<"a","p","i",".","o","p","e","n","a","i",".","c","o","m",".","e","v","i","l",".","o","r","g">>, <<"a","p","i",".","o","p","e","n","a","i",".","c","o">> }

Hosts ==
  UNION { {p \o b, p \o upper(b), upper(p) \o b \o <<".">>} : p \in HostPrefixes, b \in HostBases }

PathPieces ==
  { <<"/","v","1">>, <<"/","c","h","a","t","/","c","o","m","p","l","e","t","i","o","n","s">>, <<"/","r","e","s","p","o","n","s","e","s">>, <<"/","b","a","c","k","e","n","d","-","a","p","i","/">>, <<"/","m","c","p","/">>,
    <<"/","m","e","s","s","a","g","e","s">>, <<"/","c","h","a","t">>, <<"m","c","p","/">> }

RECURSIVE PathsOf(_)
PathsOf(n) ==
  IF n = 0 THEN { <<>> }
  ELSE LET shorter == PathsOf(n - 1)
       IN shorter \cup { p \o q : p \in shorter, q \in PathPieces }

Paths == PathsOf(MaxPieces)

Providers == {"anthropic", "openai", "chatgpt", "gemini", "openrouter", "opencode", "mistral", ""}

HeaderNames ==
  { <<"C","o","n","t","e","n","t","-","T","y","p","e">>, <<"c","o","n","t","e","n","t","-","t","y","p","e">>, <<"A","u","t","h","o","r","i","z","a","t","i","o","n">>, <<"x","-","a","p","i","-","k","e","y">>,
    <<"X","-","R","e","q","u","e","s","t","-","I","d">>, <<"A","C","C","E","P","T">>, <<"c","o","o","k","i","e">>, <<"a","n","t","h","r","o","p","i","c","-","v","e","r","s","i","o","n">>,
    <<"x","-","c","o","n","t","e","n","t","-","t","y","p","e">> }

HeaderValues == { <<"a">>, <<"B">> }

RECURSIVE HeaderMapsOf(_)
HeaderMapsOf(n) ==
  IF n = 0 THEN { <<>> }
  ELSE LET shorter == HeaderMapsOf(n - 1)
       IN shorter \cup
          { Append(h, <<k, v>>) : h \in {m \in shorter : Len(m) = n - 1},
                                   k \in HeaderNames, v \in HeaderValues }

\* a header map has each key once
HeaderMaps ==
  { h \in HeaderMapsOf(MaxHeaders) : \A i, j \in 1..Len(h) : h[i][1] = h[j][1] => i = j }


\* ------------------------------------------------------------------ module globals
\* CONTEXTIO_SOURCE and CONTEXTIO_SESSION_ID unset: the defaults
SOURCE == <<"u","n","k","n","o","w","n">>

SESSION_ID == <<>>

Flows == 1..NumFlows

\* ------------------------------------------------------------------ flows handed to response()
NoneT == 0 - 1

\* Python truthiness of a timestamp: None and 0 are false
Truthy(t) == t # NoneT /\ t # 0

Methods == {"POST", "GET"}

Endpoints ==
  { [host |-> <<"A","P","I",".","A","n","t","h","r","o","p","i","c",".","c","o","m">>, path |-> <<"/","v","1","/","m","e","s","s","a","g","e","s">>, llm |-> TRUE],
    [host |-> <<"e","x","a","m","p","l","e",".","c","o","m">>, path |-> <<"/","v","1","/","c","h","a","t","/","c","o","m","p","l","e","t","i","o","n","s">>, llm |-> FALSE] }

RequestHeaders == << <<<<"A","u","t","h","o","r","i","z","a","t","i","o","n">>, <<"k">>>>, <<<<"C","o","n","t","e","n","t","-","T","y","p","e">>, <<"j">>>> >>

\* request bodies: a JSON body, or one json.loads rejects
JsonBody == [text |-> "{}", isJson |-> TRUE, timestamp_start |-> 5]

BadBody == [text |-> "not json", isJson |-> FALSE, timestamp_start |-> NoneT]

\* the rest of an exchange: the request body, and flow.response, which is None
\* or a response whose body get_text() can or cannot decode
NoResponse ==
  [body |-> JsonBody,
   response |-> [present |-> FALSE, decodable |-> FALSE, text |-> "", status_code |-> "0",
                 headers |-> <<>>, timestamp_end |-> NoneT]]

StreamExchange ==
  [body |-> JsonBody,
   response |-> [present |-> TRUE, decodable |-> TRUE, text |-> "data: x",
                 status_code |-> "200",
                 headers |-> << <<<<"c","o","n","t","e","n","t","-","t","y","p","e">>, <<"t","e","x","t","/","e","v","e","n","t","-","s","t","r","e","a","m">>>>,
                                <<<<"s","e","t","-","c","o","o","k","i","e">>, <<"s">>>> >>,
                 timestamp_end |-> 7]]

UndecodableStream ==
  [body |-> BadBody,
   response |-> [present |-> TRUE, decodable |-> FALSE, text |-> "", status_code |-> "200",
                 headers |-> << <<<<"C","o","n","t","e","n","t","-","T","y","p","e">>, <<"t","e","x","t","/","e","v","e","n","t","-","s","t","r","e","a","m",";"," ","c","h","a","r","s","e","t","=","x">>>> >>,
                 timestamp_end |-> NoneT]]

JsonExchange ==
  [body |-> JsonBody,
   response |-> [present |-> TRUE, decodable |-> TRUE, text |-> "{}", status_code |-> "429",
                 headers |-> << <<<<"C","o","n","t","e","n","t","-","T","y","p","e">>, <<"a","p","p","l","i","c","a","t","i","o","n","/","j","s","o","n">>>> >>,
                 timestamp_end |-> 3]]

Exchanges == {NoResponse, StreamExchange, UndecodableStream, JsonExchange}

FlowOf(m, e, x) ==
  [method |-> m, host |-> e.host, path |-> e.path, headers |-> RequestHeaders,
   body |-> x.body, response |-> x.response]

\* the flows handed to response(): every exchange as a POST to every endpoint
\* of an LLM host; and every method and endpoint with two of the exchanges, one
\* without response and one with (response() returns on the requests it skips
\* before it reads the body or the response)
FlowInputs ==
  {FlowOf("POST", e, x) : e \in {d \in Endpoints : d.llm}, x \in Exchanges}
    \cup {FlowOf(m, e, x) : m \in Methods, e \in Endpoints, x \in {NoResponse, StreamExchange}}

NoFlow == [method |-> "", host |-> <<>>, path |-> <<>>, headers |-> <<>>,
           body |-> [text |-> "", isJson |-> FALSE, timestamp_start |-> NoneT],
           response |-> [present |-> FALSE, decodable |-> FALSE, text |-> "",
                         status_code |-> "0", headers |-> <<>>, timestamp_end |-> NoneT]]

\* Headers.get(name, default): header names compare case-insensitively
HeadersGet(headers, name, default) ==
  LET hits == {i \in 1..Len(headers) : lower(headers[i][1]) = lower(name)}
  IN IF hits = {} THEN default
     ELSE headers[CHOOSE i \in hits : \A j \in hits : i <= j][2]

\* ------------------------------------------------------------------ response(): capture assembly
\* the two early returns
SkipsAnyMethod(fl) == _match_provider(fl.host) \in {None, ""}

Skips(fl) == fl.method # "POST" \/ _match_provider(fl.host) \in {None, ""}

\* json.loads(flow.request.get_text()) under try/except
RequestBody(fl) == IF fl.body.isJson THEN fl.body.text ELSE None

\* response_body and response_is_streaming: one try block, get_text() first
ResponseBody(resp) ==
  IF resp.present /\ resp.decodable
    THEN [body |-> resp.text,
          streaming |-> contains(<<"t","e","x","t","/","e","v","e","n","t","-","s","t","r","e","a","m">>,
                                 HeadersGet(resp.headers, <<"c","o","n","t","e","n","t","-","t","y","p","e">>, <<>>))]
    ELSE [body |-> "", streaming |-> FALSE]

Max(a, b) == IF a >= b THEN a ELSE b

\* start, end, total_ms
TotalMs(fl) ==
  LET start == IF Truthy(fl.body.timestamp_start) THEN fl.body.timestamp_start ELSE 0
      end == IF Truthy(fl.response.timestamp_end) THEN fl.response.timestamp_end ELSE start
  IN Max(0, (end - start) * 1000)

\* flow.response.timestamp_end on a flow without response raises AttributeError
\* outside every try block
AssemblyRaises(fl) == ~fl.response.present

NoCapture == [captured |-> FALSE]

\* the capture dict (timestamp, targetUrl and the byte counts are left out)
Capture(fl) ==
  LET provider == _match_provider(fl.host)
      rb == ResponseBody(fl.response)
  IN [captured |-> TRUE,
      sessionId |-> IF SESSION_ID = <<>> THEN None ELSE SESSION_ID,
      method |-> "POST",
      path |-> fl.path,
      source |-> SOURCE,
      provider |-> provider,
      apiFormat |-> _detect_api_format(fl.path, provider),
      requestHeaders |-> _safe_headers(fl.headers),
      requestBody |-> RequestBody(fl),
      responseStatus |-> fl.response.status_code,
      responseHeaders |-> _safe_headers(fl.response.headers),
      responseBody |-> rb.body,
      responseIsStreaming |-> rb.streaming,
      total_ms |-> TotalMs(fl)]

\* ------------------------------------------------------------------ _write_capture: names
DigitChars == <<"0","1","2","3","4","5","6","7","8","9">>

RECURSIVE Digits(_)
\* str(n) for n >= 0
Digits(n) == IF n < 10 THEN <<DigitChars[n + 1]>> ELSE Digits(n \div 10) \o <<DigitChars[(n % 10) + 1]>>

RECURSIVE ZeroPad(_, _)
ZeroPad(s, width) == IF Len(s) >= width THEN s ELSE ZeroPad(<<"0">> \o s, width)

\* f"{_SEQ:06d}"
FormatSeq(n) == ZeroPad(Digits(n), Len(<<"0","0","0","0","0","0">>))

\* "_".join(parts) + ".json"
Filename(source, session_id, t, s) ==
  source \o <<"_">>
    \o (IF session_id # <<>> THEN session_id \o <<"_">> ELSE <<>>)
    \o Digits(t) \o <<"-">> \o s \o <<".","j","s","o","n">>

out_file(filename) == filename

TmpIsOut(filename) == filename

tmp_file(filename) == <<".">> \o filename \o <<".","t","m","p">>

\* what a reader polling the directory takes for a capture file
IsCaptureName(p) == endswith(p, <<".","j","s","o","n">>) /\ (Len(p) = 0 \/ p[1] # ".")

\* ------------------------------------------------------------------ files
Hole == <<0, 0>>

\* json.dump(capture, f) of flow g emits these chunks, in order
Chunk(g, i) == <<g, i>>

Serialized(g) == [i \in 1..NumChunks |-> Chunk(g, i)]

\* a write of one chunk at file offset pos
WriteAt(content, pos, chunk) ==
  [j \in 1..Max(Len(content), pos) |->
     IF j = pos THEN chunk ELSE IF j <= Len(content) THEN content[j] ELSE Hole]

DirSet(d, p, i) == [x \in (DOMAIN d) \cup {p} |-> IF x = p THEN i ELSE d[x]]

DirRemove(d, p) == [x \in (DOMAIN d) \ {p} |-> d[x]]

EmptyDir == [x \in {} |-> 0]

\* ------------------------------------------------------------------ initial states
ProcInit(e) ==
  /\ engine = e
  /\ alive = TRUE
  /\ now = 0
  /\ _SEQ = 0
  /\ dirExists = FALSE
  /\ dir = EmptyDir
  /\ inode = [i \in Flows |-> <<>>]
  /\ pc = [f \in Flows |-> "idle"]
  /\ flow = [f \in Flows |-> NoFlow]
  /\ capture = [f \in Flows |-> NoCapture]
  /\ ts = [f \in Flows |-> 0]
  /\ seq = [f \in Flows |-> <<>>]
  /\ loaded = [f \in Flows |-> 0]
  /\ fd = [f \in Flows |-> 0]
  /\ wpos = [f \in Flows |-> 0]
  /\ fail = [f \in Flows |-> "none"]
  /\ raised = [f \in Flows |-> FALSE]
  /\ readPartial = FALSE

NoPure == fn = "none" /\ arg = <<>> /\ result = [done |-> FALSE]

\* mitmproxy runs a synchronous hook to completion before the next one
Init == NoPure /\ ProcInit("serial")

\* the hook called from several threads at once
InitThreads == NoPure /\ ProcInit("threads")

\* ------------------------------------------------------------------ response()
\* an exception inside _write_capture, caught by response()'s except clause
Fails(f, step) ==
  /\ pc' = [pc EXCEPT ![f] = "done"]
  /\ fail' = [fail EXCEPT ![f] = step]

\* lines 135-188: the early returns and the assembly of capture
response(f) ==
  /\ alive
  /\ pc[f] = "idle"
  /\ \A g \in Flows : g < f => pc[g] # "idle"
  /\ engine = "serial" => \A g \in Flows : pc[g] \in {"idle", "done"}
  /\ \E fl \in FlowInputs :
          /\ flow' = [flow EXCEPT ![f] = fl]
          /\ IF Skips(fl)
               THEN /\ pc' = [pc EXCEPT ![f] = "done"]
                    /\ UNCHANGED <<capture, fail, raised>>
             ELSE IF AssemblyRaises(fl)
               THEN /\ pc' = [pc EXCEPT ![f] = "done"]
                    /\ fail' = [fail EXCEPT ![f] = "assembly"]
                    /\ raised' = [raised EXCEPT ![f] = TRUE]
                    /\ UNCHANGED capture
             ELSE /\ pc' = [pc EXCEPT ![f] = "mkdir"]
                  /\ capture' = [capture EXCEPT ![f] = Capture(fl)]
                  /\ UNCHANGED <<fail, raised>>
  /\ UNCHANGED <<engine, alive, now, _SEQ, dirExists, dir, inode, ts, seq, loaded,
                 fd, wpos, readPartial>>
  /\ UNCHANGED pureVars

\* line 112: capture_path.mkdir(parents=True, exist_ok=True)
Mkdir(f) ==
  /\ alive
  /\ pc[f] = "mkdir"
  /\ \/ /\ dirExists' = TRUE
        /\ pc' = [pc EXCEPT ![f] = "fmt"]
        /\ UNCHANGED fail
     \/ /\ ~dirExists
        /\ Fails(f, "mkdir")
        /\ UNCHANGED dirExists
  /\ UNCHANGED <<engine, alive, now, _SEQ, dir, inode, flow, capture, ts, seq, loaded,
                 fd, wpos, raised, readPartial>>
  /\ UNCHANGED pureVars

\* lines 114-115: ts = int(time.time() * 1000); seq = f"{_SEQ:06d}"
FormatSeqStep(f) ==
  /\ alive
  /\ pc[f] = "fmt"
  /\ ts' = [ts EXCEPT ![f] = now]
  /\ seq' = [seq EXCEPT ![f] = FormatSeq(_SEQ)]
  /\ pc' = [pc EXCEPT ![f] = "load"]
  /\ UNCHANGED <<engine, alive, now, _SEQ, dirExists, dir, inode, flow, capture, loaded,
                 fd, wpos, fail, raised, readPartial>>
  /\ UNCHANGED pureVars

\* line 116, first half: the load of _SEQ by "_SEQ += 1"
LoadSeq(f) ==
  /\ alive
  /\ pc[f] = "load"
  /\ loaded' = [loaded EXCEPT ![f] = _SEQ]
  /\ pc' = [pc EXCEPT ![f] = "store"]
  /\ UNCHANGED <<engine, alive, now, _SEQ, dirExists, dir, inode, flow, capture, ts, seq,
                 fd, wpos, fail, raised, readPartial>>
  /\ UNCHANGED pureVars

StoreSeqTwice(f) ==
  /\ alive
  /\ pc[f] = "store"
  /\ _SEQ' = loaded[f] + 2
  /\ pc' = [pc EXCEPT ![f] = "open"]
  /\ UNCHANGED <<engine, alive, now, dirExists, dir, inode, flow, capture, ts, seq,
                 loaded, fd, wpos, fail, raised, readPartial>>
  /\ UNCHANGED pureVars

\* line 116, second half: the store of the incremented value
StoreSeq(f) ==
  /\ alive
  /\ pc[f] = "store"
  /\ _SEQ' = loaded[f] + 1
  /\ pc' = [pc EXCEPT ![f] = "open"]
  /\ UNCHANGED <<engine, alive, now, dirExists, dir, inode, flow, capture, ts, seq,
                 loaded, fd, wpos, fail, raised, readPartial>>
  /\ UNCHANGED pureVars

\* the filename of lines 119-123 for flow f
FilenameOf(f) == Filename(SOURCE, SESSION_ID, ts[f], seq[f])

\* line 128: tmp_file.open("w"), which creates the file or truncates it
OpenTmp(f) ==
  /\ alive
  /\ pc[f] = "open"
  /\ \/ /\ dirExists
        /\ LET p == tmp_file(FilenameOf(f))
           IN IF p \in DOMAIN dir
                THEN /\ inode' = [inode EXCEPT ![dir[p]] = <<>>]
                     /\ fd' = [fd EXCEPT ![f] = dir[p]]
                     /\ UNCHANGED dir
                ELSE /\ inode' = [inode EXCEPT ![f] = <<>>]
                     /\ fd' = [fd EXCEPT ![f] = f]
                     /\ dir' = DirSet(dir, p, f)
        /\ pc' = [pc EXCEPT ![f] = "dump"]
        /\ UNCHANGED fail
     \/ /\ Fails(f, "open")
        /\ UNCHANGED <<dir, inode, fd>>
  /\ UNCHANGED <<engine, alive, now, _SEQ, dirExists, flow, capture, ts, seq, loaded,
                 wpos, raised, readPartial>>
  /\ UNCHANGED pureVars

\* line 129: json.dump writes the record chunk by chunk; leaving the with
\* block closes the file, also when a write raises
Dump(f) ==
  /\ alive
  /\ pc[f] = "dump"
  /\ \/ /\ inode' = [inode EXCEPT ![fd[f]] = WriteAt(@, wpos[f] + 1, Chunk(f, wpos[f] + 1))]
        /\ wpos' = [wpos EXCEPT ![f] = @ + 1]
        /\ pc' = [pc EXCEPT ![f] = IF wpos[f] + 1 = NumChunks THEN "replace" ELSE "dump"]
        /\ UNCHANGED fail
     \/ /\ Fails(f, "dump")
        /\ UNCHANGED <<inode, wpos>>
  /\ UNCHANGED <<engine, alive, now, _SEQ, dirExists, dir, flow, capture, ts, seq, loaded,
                 fd, raised, readPartial>>
  /\ UNCHANGED pureVars

\* line 130: tmp_file.replace(out_file), an atomic rename
Replace(f) ==
  /\ alive
  /\ pc[f] = "replace"
  /\ LET src == tmp_file(FilenameOf(f))
         dst == out_file(FilenameOf(f))
     IN \/ /\ src \in DOMAIN dir
           /\ dir' = DirSet(DirRemove(dir, src), dst, dir[src])
           /\ pc' = [pc EXCEPT ![f] = "done"]
           /\ UNCHANGED fail
        \/ /\ Fails(f, "replace")
           /\ UNCHANGED dir
  /\ UNCHANGED <<engine, alive, now, _SEQ, dirExists, inode, flow, capture, ts, seq,
                 loaded, fd, wpos, raised, readPartial>>
  /\ UNCHANGED pureVars

\* ------------------------------------------------------------------ environment
\* time.time() advances
Tick ==
  /\ alive
  /\ now < MaxNow
  /\ now' = now + 1
  /\ UNCHANGED <<engine, alive, _SEQ, dirExists, dir, inode, pc, flow, capture, ts, seq,
                 loaded, fd, wpos, fail, raised, readPartial>>
  /\ UNCHANGED pureVars

\* the process is killed, wherever its handlers are
Kill ==
  /\ alive
  /\ alive' = FALSE
  /\ UNCHANGED <<engine, now, _SEQ, dirExists, dir, inode, pc, flow, capture, ts, seq,
                 loaded, fd, wpos, fail, raised, readPartial>>
  /\ UNCHANGED pureVars

\* a complete file holds every chunk of one record
Complete(content) == \E g \in Flows : content = Serialized(g)

\* the ingestion pipeline lists the directory and reads every capture file
ReaderPoll ==
  /\ dirExists
  /\ readPartial' = (readPartial \/ \E p \in DOMAIN dir :
                                       IsCaptureName(p) /\ ~Complete(inode[dir[p]]))
  /\ UNCHANGED <<engine, alive, now, _SEQ, dirExists, dir, inode, pc, flow, capture, ts,
                 seq, loaded, fd, wpos, fail, raised>>
  /\ UNCHANGED pureVars

Next ==
  \/ \E f \in Flows : response(f)
  \/ \E f \in Flows : Mkdir(f)
  \/ \E f \in Flows : FormatSeqStep(f)
  \/ \E f \in Flows : LoadSeq(f)
  \/ \E f \in Flows : StoreSeq(f)
  \/ \E f \in Flows : OpenTmp(f)
  \/ \E f \in Flows : Dump(f)
  \/ \E f \in Flows : Replace(f)
  \/ Tick
  \/ Kill
  \/ ReaderPoll

Spec == Init /\ [][Next]_vars

SpecThreads == InitThreads /\ [][Next]_vars

\* ------------------------------------------------------------------ the pure functions, applied
InitPure ==
  /\ ProcInit("serial")
  /\ result = [done |-> FALSE]
  /\ \/ fn = "_match_provider" /\ arg \in Hosts
     \/ fn = "_detect_api_format" /\ arg \in Paths \X Providers
     \/ fn = "_safe_headers" /\ arg \in HeaderMaps

ApplyMatchProvider ==
  /\ fn = "_match_provider"
  /\ ~result.done
  /\ result' = [done |-> TRUE, value |-> _match_provider(arg)]
  /\ UNCHANGED <<fn, arg>>
  /\ UNCHANGED procVars

ApplyDetectApiFormat ==
  /\ fn = "_detect_api_format"
  /\ ~result.done
  /\ result' = [done |-> TRUE, value |-> _detect_api_format(arg[1], arg[2])]
  /\ UNCHANGED <<fn, arg>>
  /\ UNCHANGED procVars

ApplySafeHeaders ==
  /\ fn = "_safe_headers"
  /\ ~result.done
  /\ result' = [done |-> TRUE, value |-> _safe_headers(arg)]
  /\ UNCHANGED <<fn, arg>>
  /\ UNCHANGED procVars

NextPure == ApplyMatchProvider \/ ApplyDetectApiFormat \/ ApplySafeHeaders

SpecPure == InitPure /\ [][NextPure]_vars

\* ------------------------------------------------------------------ properties
\* some provider rule matches the host, whatever its position in the table
HostHasRule(host) ==
  LET h == lower(host)
  IN \E i \in 1..Len(LLM_HOSTS) :
       h = LLM_HOSTS[i].pattern \/ endswith(h, <<".">> \o LLM_HOSTS[i].pattern)

\* the capture directory holds flow f's complete record under a capture name
Persisted(f) ==
  \E p \in DOMAIN dir : IsCaptureName(p) /\ inode[dir[p]] = Serialized(f)

\* no response() call is under way
Quiescent == \A f \in Flows : pc[f] \in {"idle", "done"}

\* C1 as stated: once response() has returned (not raised), the flow's record
\* is persisted if and only if its method is POST and its host matches a
\* provider rule.
C1_PersistedIffPostAndProvider ==
  \A f \in Flows :
    (pc[f] = "done" /\ ~raised[f]) =>
      (Persisted(f) <=> (flow[f].method = "POST" /\ HostHasRule(flow[f].host)))

\* C1 amended: once response() is over, the flow's record is persisted if and
\* only if its method is POST, its host matches a provider rule and no step of
\* assembly or persistence raised.
C1_PersistedIffPostProviderNoFailure ==
  \A f \in Flows :
    pc[f] = "done" =>
      (Persisted(f) <=>
         (flow[f].method = "POST" /\ HostHasRule(flow[f].host) /\ fail[f] = "none"))

C1_Witness ==
  \E f, g \in Flows :
    /\ pc[f] = "done" /\ Persisted(f)
    /\ pc[g] = "done" /\ flow[g].method = "POST" /\ ~HostHasRule(flow[g].host)

\* C2: a response() call on a flow whose method is not POST returns at once
\* and changes neither the capture directory, nor any file, nor _SEQ, whatever
\* the host.
C2_NonPostNoSideEffect ==
  [][\A f \in Flows :
       (pc[f] = "idle" /\ pc'[f] # "idle" /\ flow'[f].method # "POST") =>
         /\ pc'[f] = "done"
         /\ ~raised'[f]
         /\ UNCHANGED <<dirExists, dir, inode, _SEQ>>]_vars

C2_Witness ==
  \E f \in Flows :
    pc[f] = "done" /\ flow[f].method # "POST" /\ HostHasRule(flow[f].host) /\ ~dirExists

\* C3: every file under a capture name holds a complete record, at every step
\* of every writer and after a kill or a failure; incomplete content exists
\* only under a hidden .tmp name, and no reader ever reads an incomplete file.
C3_NoPartialCaptureFile ==
  /\ ~readPartial
  /\ \A p \in DOMAIN dir :
       \/ IsCaptureName(p) /\ Complete(inode[dir[p]])
       \/ ~IsCaptureName(p) /\ p[1] = "." /\ endswith(p, <<".","t","m","p">>)

C3_Witness ==
  /\ ~alive
  /\ \E p \in DOMAIN dir : ~Complete(inode[dir[p]]) /\ Len(inode[dir[p]]) > 0
  /\ \E p \in DOMAIN dir : IsCaptureName(p)

\* flow f has formatted its sequence number
HasSeq(f) == seq[f] # <<>>

\* C4 as stated: no two flows ever obtain the same sequence value, also when
\* their _write_capture calls overlap.
C4_DistinctSequenceValues ==
  \A f, g \in Flows : (f # g /\ HasSeq(f) /\ HasSeq(g)) => seq[f] # seq[g]

\* C5 as stated: response() never lets an exception reach the host engine.
C5_NeverPropagates == \A f \in Flows : ~raised[f]

\* C6: _safe_headers returns exactly the entries whose lower-cased name is in
\* the allowlist, with key and value as given, and nothing else.
C6_SafeHeadersExactlyAllowed ==
  (fn = "_safe_headers" /\ result.done) =>
    LET out == result.value
        kept == {i \in 1..Len(arg) : lower(arg[i][1]) \in allowed}
    IN /\ DOMAIN out = {arg[i][1] : i \in kept}
       /\ \A i \in kept : out[arg[i][1]] = arg[i][2]
       /\ \A k \in DOMAIN out : lower(k) \in allowed

C6_Witness ==
  /\ fn = "_safe_headers" /\ result.done
  /\ \E k \in DOMAIN result.value : k # lower(k)
  /\ \E i \in 1..Len(arg) : arg[i][1] \notin DOMAIN result.value

Reverse(s) == [i \in 1..Len(s) |-> s[Len(s) + 1 - i]]

\* the provider of the longest pattern the lower-cased host equals or ends with
\* after a dot
LongestMatch(host) ==
  LET h == lower(host)
      m == {i \in 1..Len(LLM_HOSTS) :
              h = LLM_HOSTS[i].pattern \/ endswith(h, <<".">> \o LLM_HOSTS[i].pattern)}
  IN IF m = {} THEN None
     ELSE LLM_HOSTS[CHOOSE i \in m :
                      \A j \in m : Len(LLM_HOSTS[i].pattern) >= Len(LLM_HOSTS[j].pattern)].provider

\* C7: _match_provider returns the provider of the longest matching pattern,
\* None when none matches, whatever the letter case of the host and the order
\* of the table.
C7_LongestSuffixMatch ==
  (fn = "_match_provider" /\ result.done) =>
    /\ result.value = LongestMatch(arg)
    /\ result.value = _match_provider(upper(arg))
    /\ result.value = _match_provider(lower(arg))
    /\ result.value = MatchLoop(Reverse(LLM_HOSTS), lower(arg), 1)

C7_Witness ==
  /\ fn = "_match_provider" /\ result.done
  /\ result.value = "openai"
  /\ arg # lower(arg)
  /\ Len(arg) > Len(<<"a","p","i",".","e","n","t","e","r","p","r","i","s","e",".","g","i","t","h","u","b","c","o","p","i","l","o","t",".","c","o","m">>)

\* the decision table: per provider, (substring, tag) in priority order
FormatRules(provider) ==
  IF provider = "anthropic" THEN << <<<<"/","m","e","s","s","a","g","e","s">>, "anthropic-messages">> >>
  ELSE IF provider \in {"openai", "chatgpt"}
    THEN << <<<<"/","c","h","a","t","/","c","o","m","p","l","e","t","i","o","n","s">>, "chat-completions">>, <<<<"/","r","e","s","p","o","n","s","e","s">>, "responses">>,
            <<<<"/","b","a","c","k","e","n","d","-","a","p","i","/">>, "chatgpt-backend">>, <<<<"/","m","c","p","/">>, "mcp">> >>
  ELSE IF provider \in {"openrouter", "opencode"}
    THEN << <<<<"/","c","h","a","t","/","c","o","m","p","l","e","t","i","o","n","s">>, "chat-completions">>, <<<<"/","r","e","s","p","o","n","s","e","s">>, "responses">> >>
  ELSE <<>>

TableFormat(path, provider) ==
  LET rules == FormatRules(provider)
      found == {i \in 1..Len(rules) : contains(rules[i][1], path)}
  IN IF provider = "gemini" THEN "gemini"
     ELSE IF found = {} THEN "unknown"
     ELSE rules[CHOOSE i \in found : \A j \in found : i <= j][2]

\* C8: _detect_api_format returns a tag for every input, the one the decision
\* table gives: the first substring found in priority order, gemini for
\* gemini, unknown otherwise.
C8_FormatDecisionTable ==
  (fn = "_detect_api_format" /\ result.done) =>
    /\ result.value = TableFormat(arg[1], arg[2])
    /\ result.value \in {"anthropic-messages", "chat-completions", "responses",
                         "chatgpt-backend", "mcp", "gemini", "unknown"}

C8_Witness ==
  /\ fn = "_detect_api_format" /\ result.done
  /\ arg[2] = "chatgpt"
  /\ contains(<<"/","r","e","s","p","o","n","s","e","s">>, arg[1])
  /\ contains(<<"/","c","h","a","t","/","c","o","m","p","l","e","t","i","o","n","s">>, arg[1])
  /\ result.value = "chat-completions"

\* C9 as stated: responseIsStreaming is true exactly when the response
\* content-type contains text/event-stream, whether or not the body decoded,
\* and responseBody is empty when it did not.
C9_StreamingFromContentType ==
  \A f \in Flows :
    capture[f].captured =>
      /\ capture[f].responseIsStreaming <=>
           contains(<<"t","e","x","t","/","e","v","e","n","t","-","s","t","r","e","a","m">>,
                    HeadersGet(flow[f].response.headers, <<"c","o","n","t","e","n","t","-","t","y","p","e">>, <<>>))
      /\ ~flow[f].response.decodable => capture[f].responseBody = ""

\* flow f's _write_capture call got past the creation of the directory
Numbered(f) == pc[f] = "done" /\ capture[f].captured /\ fail[f] # "mkdir"

\* C10 as stated: between response() calls _SEQ is the number of captures
\* renamed into place.
C10_SeqCountsPersisted ==
  Quiescent => _SEQ = Cardinality({f \in Flows : Persisted(f)})

\* C10 amended: _SEQ starts at 0, never decreases, and between response()
\* calls it is the number of _write_capture calls that got past the creation of
\* the directory, which is at least the number of captures renamed into place.
C10_SeqCountsNumbered ==
  /\ _SEQ = 0
  /\ [][/\ _SEQ' >= _SEQ
        /\ Quiescent' =>
             /\ _SEQ' = Cardinality({f \in Flows : Numbered(f)'})
             /\ _SEQ' >= Cardinality({f \in Flows : Persisted(f)'})]_vars

C10_Witness ==
  /\ Quiescent
  /\ \E f \in Flows : fail[f] \in {"dump", "replace"}
  /\ \E f \in Flows : Persisted(f)
  /\ _SEQ > Cardinality({f \in Flows : Persisted(f)})

====
